---- MODULE Spec2Model ----
(***************************************************************************)
(* Model of the Kamailio statistics collector (statscollector.go): the     *)
(* binrpc fetches, the conversion of the replies into MemoryEntry values   *)
(* and a flat stat map, and the translation of both into Prometheus        *)
(* metrics.  Go strings are TLA+ strings; every string function of the     *)
(* code is computed character by character.                                *)
(***************************************************************************)
EXTENDS Integers, Sequences, FiniteSets, TLC

(***************************************************************************)
(* Bounds of the model.                                                    *)
(***************************************************************************)
\* largest number of keys of a flat stat map given to the translators
MaxKeys == 3
\* largest number of MemoryEntry values given to producePKGMemMetrics
MaxEntries == 2

(***************************************************************************)
(* Go's strings package and strconv, on TLA+ strings.                      *)
(***************************************************************************)
Char(s, i) == SubSeq(s, i, i)

HasPrefix(s, prefix) ==
    Len(s) >= Len(prefix) /\ SubSeq(s, 1, Len(prefix)) = prefix

HasSuffix(s, suffix) ==
    Len(s) >= Len(suffix) /\ SubSeq(s, Len(s) - Len(suffix) + 1, Len(s)) = suffix

TrimPrefix(s, prefix) ==
    IF HasPrefix(s, prefix) THEN SubSeq(s, Len(prefix) + 1, Len(s)) ELSE s

UpperLetters == "ABCDEFGHIJKLMNOPQRSTUVWXYZ"
LowerLetters == "abcdefghijklmnopqrstuvwxyz"

ToLowerChar(ch) ==
    IF \E i \in 1..Len(UpperLetters) : Char(UpperLetters, i) = ch
    THEN Char(LowerLetters, CHOOSE i \in 1..Len(UpperLetters) : Char(UpperLetters, i) = ch)
    ELSE ch

RECURSIVE ToLower(_)
ToLower(s) ==
    IF Len(s) = 0 THEN ""
    ELSE ToLowerChar(Char(s, 1)) \o ToLower(SubSeq(s, 2, Len(s)))

Digits == "0123456789"
IsDigit(ch) == \E i \in 1..Len(Digits) : Char(Digits, i) = ch
DigitVal(ch) == (CHOOSE i \in 1..Len(Digits) : Char(Digits, i) = ch) - 1

RECURSIVE ParseDigits(_, _)
\* the value of a string of decimal digits, most significant first
ParseDigits(s, acc) ==
    IF Len(s) = 0 THEN acc
    ELSE ParseDigits(SubSeq(s, 2, Len(s)), acc * 10 + DigitVal(Char(s, 1)))

AllDigits(s) == Len(s) > 0 /\ \A i \in 1..Len(s) : IsDigit(Char(s, i))

\* strconv.ParseFloat(s, 64) on the strings of the model: an optional sign
\* followed by decimal digits parses, anything else (the empty string, a
\* string with a letter) is a syntax error.
ParseFloat(s) ==
    IF AllDigits(s) THEN [err |-> FALSE, val |-> ParseDigits(s, 0)]
    ELSE IF Len(s) > 1 /\ Char(s, 1) = "-" /\ AllDigits(SubSeq(s, 2, Len(s)))
    THEN [err |-> FALSE, val |-> 0 - ParseDigits(SubSeq(s, 2, Len(s)), 0)]
    ELSE IF Len(s) > 1 /\ Char(s, 1) = "+" /\ AllDigits(SubSeq(s, 2, Len(s)))
    THEN [err |-> FALSE, val |-> ParseDigits(SubSeq(s, 2, Len(s)), 0)]
    ELSE [err |-> TRUE, val |-> 0]

RECURSIVE ItoaNat(_)
ItoaNat(n) ==
    IF n < 10 THEN Char(Digits, n + 1)
    ELSE ItoaNat(n \div 10) \o Char(Digits, (n % 10) + 1)

\* strconv.Itoa
Itoa(n) == IF n < 0 THEN "-" \o ItoaNat(0 - n) ELSE ItoaNat(n)

(***************************************************************************)
(* prometheus: value types, descriptors and constant metrics.              *)
(***************************************************************************)
CounterValue == "counter"
GaugeValue == "gauge"

NewDesc(fqName, help, variableLabels, labels) ==
    [fqName |-> fqName, help |-> help,
     variableLabels |-> variableLabels, constLabels |-> labels]

\* prometheus.NewConstMetric: an error when the number of label values is
\* not the number of variable labels of the descriptor
NewConstMetric(desc, valueType, value, labelValues) ==
    IF Len(labelValues) # Len(desc.variableLabels)
    THEN [err |-> TRUE]
    ELSE [err |-> FALSE,
          metric |-> [desc |-> desc, valType |-> valueType,
                      val |-> value, labelValues |-> labelValues]]

\* the global descriptors after initMetrics(labels)
initMetrics(labels) == [
    core_request_total |-> NewDesc("kamailio_core_request_total", "Request counters", <<"method">>, labels),
    core_rcv_request_total |-> NewDesc("kamailio_core_rcv_request_total", "Received requests by method", <<"method">>, labels),
    core_reply_total |-> NewDesc("kamailio_core_reply_total", "Reply counters", <<"type">>, labels),
    core_rcv_reply_total |-> NewDesc("kamailio_core_rcv_reply_total", "Received replies by code", <<"code">>, labels),
    shmem_bytes |-> NewDesc("kamailio_shm_bytes", "Shared memory sizes", <<"type">>, labels),
    shmem_fragments |-> NewDesc("kamailio_shm_fragments", "Shared memory fragment count", <<>>, labels),
    pkgmem_bytes |-> NewDesc("kamailio_pkg_bytes", "Private memory", <<"index", "pid", "rank", "type">>, labels),
    dns_failed |-> NewDesc("kamailio_dns_failed_request_total", "Failed dns requests", <<>>, labels),
    bad_uri |-> NewDesc("kamailio_bad_uri_total", "Messages with bad uri", <<>>, labels),
    bad_msg_hdr |-> NewDesc("kamailio_bad_msg_hdr", "Messages with bad message header", <<>>, labels),
    sl_reply_total |-> NewDesc("kamailio_sl_reply_total", "Stateless replies by code", <<"code">>, labels),
    sl_type_total |-> NewDesc("kamailio_sl_type_total", "Stateless replies by type", <<"type">>, labels),
    tcp_total |-> NewDesc("kamailio_tcp_total", "TCP connection counters", <<"type">>, labels),
    tcp_connections |-> NewDesc("kamailio_tcp_connections", "Opened TCP connections", <<>>, labels),
    tcp_writequeue |-> NewDesc("kamailio_tcp_writequeue", "TCP write queue size", <<>>, labels),
    tmx_code_total |-> NewDesc("kamailio_tmx_code_total", "Completed Transaction counters by code", <<"code">>, labels),
    tmx_type_total |-> NewDesc("kamailio_tmx_type_total", "Completed Transaction counters by type", <<"type">>, labels),
    tmx |-> NewDesc("kamailio_tmx", "Ongoing Transactions", <<"type">>, labels),
    tmx_rpl_total |-> NewDesc("kamailio_tmx_rpl_total", "Tmx reply counters", <<"type">>, labels),
    dialog |-> NewDesc("kamailio_dialog", "Ongoing Dialogs", <<"type">>, labels)
]

(***************************************************************************)
(* The static mapping of produceMetrics, one row per convertStatToMetric   *)
(* call, in the order of the calls.                                        *)
(***************************************************************************)
StatTable == <<
    [statKey |-> "core.drop_requests", optionalLabelValue |-> "drop", desc |-> "core_request_total", valueType |-> CounterValue],
    [statKey |-> "core.err_requests", optionalLabelValue |-> "err", desc |-> "core_request_total", valueType |-> CounterValue],
    [statKey |-> "core.fwd_requests", optionalLabelValue |-> "fwd", desc |-> "core_request_total", valueType |-> CounterValue],
    [statKey |-> "core.rcv_requests", optionalLabelValue |-> "rcv", desc |-> "core_request_total", valueType |-> CounterValue],
    [statKey |-> "core.rcv_requests_ack", optionalLabelValue |-> "ack", desc |-> "core_rcv_request_total", valueType |-> CounterValue],
    [statKey |-> "core.rcv_requests_bye", optionalLabelValue |-> "bye", desc |-> "core_rcv_request_total", valueType |-> CounterValue],
    [statKey |-> "core.rcv_requests_cancel", optionalLabelValue |-> "cancel", desc |-> "core_rcv_request_total", valueType |-> CounterValue],
    [statKey |-> "core.rcv_requests_info", optionalLabelValue |-> "info", desc |-> "core_rcv_request_total", valueType |-> CounterValue],
    [statKey |-> "core.rcv_requests_invite", optionalLabelValue |-> "invite", desc |-> "core_rcv_request_total", valueType |-> CounterValue],
    [statKey |-> "core.rcv_requests_message", optionalLabelValue |-> "message", desc |-> "core_rcv_request_total", valueType |-> CounterValue],
    [statKey |-> "core.rcv_requests_notify", optionalLabelValue |-> "notify", desc |-> "core_rcv_request_total", valueType |-> CounterValue],
    [statKey |-> "core.rcv_requests_options", optionalLabelValue |-> "options", desc |-> "core_rcv_request_total", valueType |-> CounterValue],
    [statKey |-> "core.rcv_requests_prack", optionalLabelValue |-> "prack", desc |-> "core_rcv_request_total", valueType |-> CounterValue],
    [statKey |-> "core.rcv_requests_publish", optionalLabelValue |-> "publish", desc |-> "core_rcv_request_total", valueType |-> CounterValue],
    [statKey |-> "core.rcv_requests_refer", optionalLabelValue |-> "refer", desc |-> "core_rcv_request_total", valueType |-> CounterValue],
    [statKey |-> "core.rcv_requests_register", optionalLabelValue |-> "register", desc |-> "core_rcv_request_total", valueType |-> CounterValue],
    [statKey |-> "core.rcv_requests_subscribe", optionalLabelValue |-> "subscribe", desc |-> "core_rcv_request_total", valueType |-> CounterValue],
    [statKey |-> "core.rcv_requests_update", optionalLabelValue |-> "update", desc |-> "core_rcv_request_total", valueType |-> CounterValue],
    [statKey |-> "core.unsupported_methods", optionalLabelValue |-> "unsupported", desc |-> "core_rcv_request_total", valueType |-> CounterValue],
    [statKey |-> "core.drop_replies", optionalLabelValue |-> "drop", desc |-> "core_reply_total", valueType |-> CounterValue],
    [statKey |-> "core.err_replies", optionalLabelValue |-> "err", desc |-> "core_reply_total", valueType |-> CounterValue],
    [statKey |-> "core.fwd_replies", optionalLabelValue |-> "fwd", desc |-> "core_reply_total", valueType |-> CounterValue],
    [statKey |-> "core.rcv_replies", optionalLabelValue |-> "rcv", desc |-> "core_reply_total", valueType |-> CounterValue],
    [statKey |-> "core.rcv_replies_18x", optionalLabelValue |-> "18x", desc |-> "core_rcv_reply_total", valueType |-> CounterValue],
    [statKey |-> "core.rcv_replies_1xx", optionalLabelValue |-> "1xx", desc |-> "core_rcv_reply_total", valueType |-> CounterValue],
    [statKey |-> "core.rcv_replies_2xx", optionalLabelValue |-> "2xx", desc |-> "core_rcv_reply_total", valueType |-> CounterValue],
    [statKey |-> "core.rcv_replies_3xx", optionalLabelValue |-> "3xx", desc |-> "core_rcv_reply_total", valueType |-> CounterValue],
    [statKey |-> "core.rcv_replies_401", optionalLabelValue |-> "401", desc |-> "core_rcv_reply_total", valueType |-> CounterValue],
    [statKey |-> "core.rcv_replies_404", optionalLabelValue |-> "404", desc |-> "core_rcv_reply_total", valueType |-> CounterValue],
    [statKey |-> "core.rcv_replies_407", optionalLabelValue |-> "407", desc |-> "core_rcv_reply_total", valueType |-> CounterValue],
    [statKey |-> "core.rcv_replies_408", optionalLabelValue |-> "408", desc |-> "core_rcv_reply_total", valueType |-> CounterValue],
    [statKey |-> "core.rcv_replies_480", optionalLabelValue |-> "480", desc |-> "core_rcv_reply_total", valueType |-> CounterValue],
    [statKey |-> "core.rcv_replies_486", optionalLabelValue |-> "486", desc |-> "core_rcv_reply_total", valueType |-> CounterValue],
    [statKey |-> "core.rcv_replies_4xx", optionalLabelValue |-> "4xx", desc |-> "core_rcv_reply_total", valueType |-> CounterValue],
    [statKey |-> "core.rcv_replies_5xx", optionalLabelValue |-> "5xx", desc |-> "core_rcv_reply_total", valueType |-> CounterValue],
    [statKey |-> "core.rcv_replies_6xx", optionalLabelValue |-> "6xx", desc |-> "core_rcv_reply_total", valueType |-> CounterValue],
    [statKey |-> "shmem.free_size", optionalLabelValue |-> "free", desc |-> "shmem_bytes", valueType |-> GaugeValue],
    [statKey |-> "shmem.max_used_size", optionalLabelValue |-> "max_used", desc |-> "shmem_bytes", valueType |-> GaugeValue],
    [statKey |-> "shmem.real_used_size", optionalLabelValue |-> "real_used", desc |-> "shmem_bytes", valueType |-> GaugeValue],
    [statKey |-> "shmem.total_size", optionalLabelValue |-> "total", desc |-> "shmem_bytes", valueType |-> GaugeValue],
    [statKey |-> "shmem.used_size", optionalLabelValue |-> "used", desc |-> "shmem_bytes", valueType |-> GaugeValue],
    [statKey |-> "shmem.fragments", optionalLabelValue |-> "", desc |-> "shmem_fragments", valueType |-> GaugeValue],
    [statKey |-> "dns.failed_dns_request", optionalLabelValue |-> "", desc |-> "dns_failed", valueType |-> CounterValue],
    [statKey |-> "core.bad_URIs_rcvd", optionalLabelValue |-> "", desc |-> "bad_uri", valueType |-> CounterValue],
    [statKey |-> "core.bad_msg_hdr", optionalLabelValue |-> "", desc |-> "bad_msg_hdr", valueType |-> CounterValue],
    [statKey |-> "sl.1xx_replies", optionalLabelValue |-> "1xx", desc |-> "sl_reply_total", valueType |-> CounterValue],
    [statKey |-> "sl.200_replies", optionalLabelValue |-> "200", desc |-> "sl_reply_total", valueType |-> CounterValue],
    [statKey |-> "sl.202_replies", optionalLabelValue |-> "202", desc |-> "sl_reply_total", valueType |-> CounterValue],
    [statKey |-> "sl.2xx_replies", optionalLabelValue |-> "2xx", desc |-> "sl_reply_total", valueType |-> CounterValue],
    [statKey |-> "sl.300_replies", optionalLabelValue |-> "300", desc |-> "sl_reply_total", valueType |-> CounterValue],
    [statKey |-> "sl.301_replies", optionalLabelValue |-> "301", desc |-> "sl_reply_total", valueType |-> CounterValue],
    [statKey |-> "sl.302_replies", optionalLabelValue |-> "302", desc |-> "sl_reply_total", valueType |-> CounterValue],
    [statKey |-> "sl.3xx_replies", optionalLabelValue |-> "3xx", desc |-> "sl_reply_total", valueType |-> CounterValue],
    [statKey |-> "sl.400_replies", optionalLabelValue |-> "400", desc |-> "sl_reply_total", valueType |-> CounterValue],
    [statKey |-> "sl.401_replies", optionalLabelValue |-> "401", desc |-> "sl_reply_total", valueType |-> CounterValue],
    [statKey |-> "sl.403_replies", optionalLabelValue |-> "403", desc |-> "sl_reply_total", valueType |-> CounterValue],
    [statKey |-> "sl.404_replies", optionalLabelValue |-> "404", desc |-> "sl_reply_total", valueType |-> CounterValue],
    [statKey |-> "sl.407_replies", optionalLabelValue |-> "407", desc |-> "sl_reply_total", valueType |-> CounterValue],
    [statKey |-> "sl.408_replies", optionalLabelValue |-> "408", desc |-> "sl_reply_total", valueType |-> CounterValue],
    [statKey |-> "sl.483_replies", optionalLabelValue |-> "483", desc |-> "sl_reply_total", valueType |-> CounterValue],
    [statKey |-> "sl.4xx_replies", optionalLabelValue |-> "4xx", desc |-> "sl_reply_total", valueType |-> CounterValue],
    [statKey |-> "sl.500_replies", optionalLabelValue |-> "500", desc |-> "sl_reply_total", valueType |-> CounterValue],
    [statKey |-> "sl.5xx_replies", optionalLabelValue |-> "5xx", desc |-> "sl_reply_total", valueType |-> CounterValue],
    [statKey |-> "sl.6xx_replies", optionalLabelValue |-> "6xx", desc |-> "sl_reply_total", valueType |-> CounterValue],
    [statKey |-> "sl.failures", optionalLabelValue |-> "failure", desc |-> "sl_type_total", valueType |-> CounterValue],
    [statKey |-> "sl.received_ACKs", optionalLabelValue |-> "received_ack", desc |-> "sl_type_total", valueType |-> CounterValue],
    [statKey |-> "sl.sent_err_replies", optionalLabelValue |-> "sent_err_reply", desc |-> "sl_type_total", valueType |-> CounterValue],
    [statKey |-> "sl.sent_replies", optionalLabelValue |-> "sent_reply", desc |-> "sl_type_total", valueType |-> CounterValue],
    [statKey |-> "sl.xxx_replies", optionalLabelValue |-> "xxx_reply", desc |-> "sl_type_total", valueType |-> CounterValue],
    [statKey |-> "tcp.con_reset", optionalLabelValue |-> "con_reset", desc |-> "tcp_total", valueType |-> CounterValue],
    [statKey |-> "tcp.con_timeout", optionalLabelValue |-> "con_timeout", desc |-> "tcp_total", valueType |-> CounterValue],
    [statKey |-> "tcp.connect_failed", optionalLabelValue |-> "connect_failed", desc |-> "tcp_total", valueType |-> CounterValue],
    [statKey |-> "tcp.connect_success", optionalLabelValue |-> "connect_success", desc |-> "tcp_total", valueType |-> CounterValue],
    [statKey |-> "tcp.established", optionalLabelValue |-> "established", desc |-> "tcp_total", valueType |-> CounterValue],
    [statKey |-> "tcp.local_reject", optionalLabelValue |-> "local_reject", desc |-> "tcp_total", valueType |-> CounterValue],
    [statKey |-> "tcp.passive_open", optionalLabelValue |-> "passive_open", desc |-> "tcp_total", valueType |-> CounterValue],
    [statKey |-> "tcp.send_timeout", optionalLabelValue |-> "send_timeout", desc |-> "tcp_total", valueType |-> CounterValue],
    [statKey |-> "tcp.sendq_full", optionalLabelValue |-> "sendq_full", desc |-> "tcp_total", valueType |-> CounterValue],
    [statKey |-> "tcp.current_opened_connections", optionalLabelValue |-> "", desc |-> "tcp_connections", valueType |-> GaugeValue],
    [statKey |-> "tcp.current_write_queue_size", optionalLabelValue |-> "", desc |-> "tcp_writequeue", valueType |-> GaugeValue],
    [statKey |-> "tmx.2xx_transactions", optionalLabelValue |-> "2xx", desc |-> "tmx_code_total", valueType |-> CounterValue],
    [statKey |-> "tmx.3xx_transactions", optionalLabelValue |-> "3xx", desc |-> "tmx_code_total", valueType |-> CounterValue],
    [statKey |-> "tmx.4xx_transactions", optionalLabelValue |-> "4xx", desc |-> "tmx_code_total", valueType |-> CounterValue],
    [statKey |-> "tmx.5xx_transactions", optionalLabelValue |-> "5xx", desc |-> "tmx_code_total", valueType |-> CounterValue],
    [statKey |-> "tmx.6xx_transactions", optionalLabelValue |-> "6xx", desc |-> "tmx_code_total", valueType |-> CounterValue],
    [statKey |-> "tmx.UAC_transactions", optionalLabelValue |-> "uac", desc |-> "tmx_type_total", valueType |-> CounterValue],
    [statKey |-> "tmx.UAS_transactions", optionalLabelValue |-> "uas", desc |-> "tmx_type_total", valueType |-> CounterValue],
    [statKey |-> "tmx.active_transactions", optionalLabelValue |-> "active", desc |-> "tmx", valueType |-> GaugeValue],
    [statKey |-> "tmx.inuse_transactions", optionalLabelValue |-> "inuse", desc |-> "tmx", valueType |-> GaugeValue],
    [statKey |-> "tmx.rpl_absorbed", optionalLabelValue |-> "absorbed", desc |-> "tmx_rpl_total", valueType |-> CounterValue],
    [statKey |-> "tmx.rpl_generated", optionalLabelValue |-> "generated", desc |-> "tmx_rpl_total", valueType |-> CounterValue],
    [statKey |-> "tmx.rpl_received", optionalLabelValue |-> "received", desc |-> "tmx_rpl_total", valueType |-> CounterValue],
    [statKey |-> "tmx.rpl_relayed", optionalLabelValue |-> "relayed", desc |-> "tmx_rpl_total", valueType |-> CounterValue],
    [statKey |-> "tmx.rpl_sent", optionalLabelValue |-> "sent", desc |-> "tmx_rpl_total", valueType |-> CounterValue],
    [statKey |-> "dialog.active_dialogs", optionalLabelValue |-> "active_dialogs", desc |-> "dialog", valueType |-> CounterValue],
    [statKey |-> "dialog.early_dialogs", optionalLabelValue |-> "early_dialogs", desc |-> "dialog", valueType |-> CounterValue],
    [statKey |-> "dialog.expired_dialogs", optionalLabelValue |-> "expired_dialogs", desc |-> "dialog", valueType |-> CounterValue],
    [statKey |-> "dialog.failed_dialogs", optionalLabelValue |-> "failed_dialogs", desc |-> "dialog", valueType |-> CounterValue],
    [statKey |-> "dialog.processed_dialogs", optionalLabelValue |-> "processed_dialogs", desc |-> "dialog", valueType |-> CounterValue]
>>

TableKeys == {StatTable[i].statKey : i \in 1..Len(StatTable)}

\* what a metric channel carries: the metric, and the stat key it was
\* converted from ("" for a PKG memory metric)
Sent(metric, statKey) == [metric |-> metric, statKey |-> statKey]

\* convertStatToMetric that ignores the value type of the mapping
convertStatToMetricGauge(completeStatMap, statKey, optionalLabelValue, metricDescription, valueType) ==
    LET labelValues == IF optionalLabelValue # "" THEN <<optionalLabelValue>> ELSE <<>>
    IN  IF statKey \in DOMAIN completeStatMap
        THEN LET parsed == ParseFloat(completeStatMap[statKey])
             IN  IF ~parsed.err
                 THEN LET m == NewConstMetric(metricDescription, GaugeValue, parsed.val, labelValues)
                      IN  IF ~m.err THEN <<Sent(m.metric, statKey)>> ELSE <<>>
                 ELSE <<>>
        ELSE <<>>

\* convertStatToMetric: the metrics sent to the channel, none or one
convertStatToMetric(completeStatMap, statKey, optionalLabelValue, metricDescription, valueType) ==
    LET labelValues == IF optionalLabelValue # "" THEN <<optionalLabelValue>> ELSE <<>>
    IN  IF statKey \in DOMAIN completeStatMap
        THEN LET parsed == ParseFloat(completeStatMap[statKey])
             IN  IF ~parsed.err
                 THEN LET m == NewConstMetric(metricDescription, valueType, parsed.val, labelValues)
                      IN  IF ~m.err THEN <<Sent(m.metric, statKey)>> ELSE <<>>
                 ELSE <<>>
        ELSE <<>>

RECURSIVE produceMetricsFrom(_, _, _)
produceMetricsFrom(completeStatMap, descs, i) ==
    IF i > Len(StatTable) THEN <<>>
    ELSE convertStatToMetric(completeStatMap, StatTable[i].statKey,
                             StatTable[i].optionalLabelValue,
                             descs[StatTable[i].desc], StatTable[i].valueType)
         \o produceMetricsFrom(completeStatMap, descs, i + 1)

\* produceMetrics: the metrics sent for the well-known stats, in order
produceMetrics(completeStatMap, descs) == produceMetricsFrom(completeStatMap, descs, 1)

\* the loop body with the suffixes looked for in the lower-cased name
convertScriptedKeyLowerSuffix(data, k, labels) ==
    IF HasPrefix(k, "script.")
    THEN LET metricName == ToLower(TrimPrefix(k, "script."))
             valueType == IF HasSuffix(metricName, "_total") \/ HasSuffix(metricName, "_seconds")
                             \/ HasSuffix(metricName, "_bytes")
                          THEN CounterValue ELSE GaugeValue
             description == NewDesc("kamailio_" \o metricName,
                                    "Scripted metric " \o metricName, <<>>, labels)
         IN  convertStatToMetric(data, k, "", description, valueType)
    ELSE <<>>

\* the loop body without the test of the prefix
convertScriptedKeyAny(data, k, labels) ==
    LET metricName == ToLower(TrimPrefix(k, "script."))
        valueType == IF HasSuffix(k, "_total") \/ HasSuffix(k, "_seconds")
                        \/ HasSuffix(k, "_bytes")
                     THEN CounterValue ELSE GaugeValue
        description == NewDesc("kamailio_" \o metricName,
                               "Scripted metric " \o metricName, <<>>, labels)
    IN  convertStatToMetric(data, k, "", description, valueType)

\* the body of the loop of convertScriptedMetrics for key k
convertScriptedKey(data, k, labels) ==
    IF HasPrefix(k, "script.")
    THEN LET metricName == ToLower(TrimPrefix(k, "script."))
             valueType == IF HasSuffix(k, "_total") \/ HasSuffix(k, "_seconds")
                             \/ HasSuffix(k, "_bytes")
                          THEN CounterValue ELSE GaugeValue
             description == NewDesc("kamailio_" \o metricName,
                                    "Scripted metric " \o metricName, <<>>, labels)
         IN  convertStatToMetric(data, k, "", description, valueType)
    ELSE <<>>

RECURSIVE convertScriptedFromBreak(_, _, _, _)
\* the loop leaving at the first key without the prefix
convertScriptedFromBreak(data, order, labels, i) ==
    IF i > Len(order) \/ ~HasPrefix(order[i], "script.") THEN <<>>
    ELSE convertStatToMetric(data, order[i], "",
                             NewDesc("kamailio_" \o ToLower(TrimPrefix(order[i], "script.")),
                                     "Scripted metric", <<>>, labels),
                             GaugeValue)
         \o convertScriptedFromBreak(data, order, labels, i + 1)

RECURSIVE convertScriptedFrom(_, _, _, _)
convertScriptedFrom(data, order, labels, i) ==
    IF i > Len(order) THEN <<>>
    ELSE convertScriptedKey(data, order[i], labels)
         \o convertScriptedFrom(data, order, labels, i + 1)

\* convertScriptedMetrics: `order` is the order in which the range over the
\* map visits its keys, which Go leaves unspecified
convertScriptedMetrics(data, order, labels) == convertScriptedFrom(data, order, labels, 1)

\* the orders in which a range over a map with these keys can visit them
RangeOrders(keys) ==
    {o \in [1..Cardinality(keys) -> keys] : \A i, j \in DOMAIN o : i # j => o[i] # o[j]}

(***************************************************************************)
(* Go slices: a slice is a window (array, len) on a backing array of the   *)
(* heap, whose length is the capacity.  append writes in place while the   *)
(* capacity allows and moves the elements to a new array otherwise.        *)
(***************************************************************************)
Elems(heap, s) == SubSeq(heap[s.array], 1, s.len)

\* a composite literal []string{...}: a new array exactly as long as the literal
SliceLiteralSpare(heap, vals) ==
    [heap |-> Append(heap, vals \o <<"">>),
     slice |-> [array |-> Len(heap) + 1, len |-> Len(vals)]]

SliceLiteral(heap, vals) ==
    [heap |-> Append(heap, vals),
     slice |-> [array |-> Len(heap) + 1, len |-> Len(vals)]]

Zeros(n) == [i \in 1..n |-> ""]

\* append(s, v)
GoAppend(heap, s, v) ==
    IF s.len < Len(heap[s.array])
    THEN [heap |-> [heap EXCEPT ![s.array][s.len + 1] = v],
          slice |-> [array |-> s.array, len |-> s.len + 1]]
    ELSE [heap |-> Append(heap, Elems(heap, s) \o <<v>> \o Zeros(s.len - 1)),
          slice |-> [array |-> Len(heap) + 1, len |-> s.len + 1]]

(***************************************************************************)
(* PKG memory metrics.                                                     *)
(***************************************************************************)
MemoryEntry(Entry, Pid, Rank, Used, Free, RealUsed, TotalSize, TotalFrags) ==
    [Entry |-> Entry, Pid |-> Pid, Rank |-> Rank, Used |-> Used, Free |-> Free,
     RealUsed |-> RealUsed, TotalSize |-> TotalSize, TotalFrags |-> TotalFrags]

\* convertPKGStatToMetric: the metrics sent to the channel, none or one
convertPKGStatToMetric(value, labels, descs) ==
    LET parsed == ParseFloat(value)
    IN  IF ~parsed.err
        THEN LET m == NewConstMetric(descs.pkgmem_bytes, GaugeValue, parsed.val, labels)
             IN  IF ~m.err THEN <<Sent(m.metric, "")>> ELSE <<>>
        ELSE <<>>

\* the body of the loop of producePKGMemMetrics for entry e: the five label
\* slices are built first, and read when the metrics are made
producePKGEntry(e, descs) ==
    LET h0 == SliceLiteral(<<>>, <<e.Entry, e.Pid, e.Rank>>)
        labelValues == h0.slice
        h1 == GoAppend(h0.heap, labelValues, "used")
        h2 == GoAppend(h1.heap, labelValues, "free")
        h3 == GoAppend(h2.heap, labelValues, "real_used")
        h4 == GoAppend(h3.heap, labelValues, "total")
        h5 == GoAppend(h4.heap, labelValues, "total_frags")
        heap == h5.heap
    IN  convertPKGStatToMetric(e.Used, Elems(heap, h1.slice), descs)
        \o convertPKGStatToMetric(e.Free, Elems(heap, h2.slice), descs)
        \o convertPKGStatToMetric(e.RealUsed, Elems(heap, h3.slice), descs)
        \o convertPKGStatToMetric(e.TotalSize, Elems(heap, h4.slice), descs)
        \o convertPKGStatToMetric(e.TotalFrags, Elems(heap, h5.slice), descs)

RECURSIVE producePKGFrom(_, _, _)
producePKGFrom(memStatMap, descs, i) ==
    IF i > Len(memStatMap) THEN <<>>
    ELSE producePKGEntry(memStatMap[i], descs) \o producePKGFrom(memStatMap, descs, i + 1)

\* producePKGMemMetrics: the metrics sent for the memory entries, in order
producePKGMemMetrics(memStatMap, descs) == producePKGFrom(memStatMap, descs, 1)

(***************************************************************************)
(* binrpc records.  A record has a wire type; a struct carries items, each *)
(* a key and a value record.  Int, String and StructItems fail on a record *)
(* of another type and then return the zero value.                         *)
(***************************************************************************)
IntRecord(n) == [Type |-> "int", Int |-> n, Str |-> "", Items |-> <<>>]
StringRecord(s) == [Type |-> "string", Int |-> 0, Str |-> s, Items |-> <<>>]
StructRecord(items) == [Type |-> "struct", Int |-> 0, Str |-> "", Items |-> items]
StructItem(key, value) == [Key |-> key, Value |-> value]

RecordInt(r) == IF r.Type = "int" THEN [err |-> FALSE, v |-> r.Int] ELSE [err |-> TRUE, v |-> 0]
RecordString(r) == IF r.Type = "string" THEN [err |-> FALSE, v |-> r.Str] ELSE [err |-> TRUE, v |-> ""]
StructItems(r) == IF r.Type = "struct" THEN [err |-> FALSE, v |-> r.Items] ELSE [err |-> TRUE, v |-> <<>>]

EmptyEntry == MemoryEntry("", "", "", "", "", "", "", "")

\* one iteration of the inner loop of fetchPKGMemStats
setEntryField(m, item) ==
    LET intRes == RecordInt(item.Value)
        value == Itoa(intRes.v)
    IN  IF intRes.err THEN m
        ELSE IF item.Key = "entry" THEN [m EXCEPT !.Entry = value]
        ELSE IF item.Key = "pid" THEN [m EXCEPT !.Pid = value]
        ELSE IF item.Key = "rank" THEN [m EXCEPT !.Rank = value]
        ELSE IF item.Key = "used" THEN [m EXCEPT !.Used = value]
        ELSE IF item.Key = "free" THEN [m EXCEPT !.Free = value]
        ELSE IF item.Key = "real_used" THEN [m EXCEPT !.RealUsed = value]
        ELSE IF item.Key = "total_size" THEN [m EXCEPT !.TotalSize = value]
        ELSE IF item.Key = "total_frags" THEN [m EXCEPT !.TotalFrags = value]
        ELSE m

RECURSIVE entryFromItemsBreak(_, _, _)
\* the item loop leaving the record at the first value that is no int
entryFromItemsBreak(m, items, i) ==
    IF i > Len(items) \/ RecordInt(items[i].Value).err THEN m
    ELSE entryFromItemsBreak(setEntryField(m, items[i]), items, i + 1)

RECURSIVE entryFromItems(_, _, _)
entryFromItems(m, items, i) ==
    IF i > Len(items) THEN m
    ELSE entryFromItems(setEntryField(m, items[i]), items, i + 1)

\* the conversion of fetchPKGMemStats: one MemoryEntry per record
memoryEntries(recs) ==
    [i \in 1..Len(recs) |-> entryFromItems(EmptyEntry, StructItems(recs[i]).v, 1)]

EmptyMap == [k \in {} |-> ""]

RECURSIVE mapFromItems(_, _, _)
mapFromItems(result, items, i) ==
    IF i > Len(items) THEN result
    ELSE LET value == RecordString(items[i].Value).v
             key == items[i].Key
         IN  mapFromItems([k \in DOMAIN result \cup {key} |->
                              IF k = key THEN value ELSE result[k]],
                          items, i + 1)

\* the conversion of fetchStats, once records[0] exists: a flat key=>value map
statMap(recs) == mapFromItems(EmptyMap, StructItems(recs[1]).v, 1)

(***************************************************************************)
(* Transport selection of execRPCCommand.                                  *)
(***************************************************************************)
\* dialTarget with the socket path tested first
dialTargetPathFirst(host, port, path) ==
    IF path # ""
    THEN [network |-> "unix", address |-> path]
    ELSE [network |-> "tcp", address |-> host \o ":" \o Itoa(port)]

\* the network and address execRPCCommand dials
dialTarget(host, port, path) ==
    IF host = ""
    THEN [network |-> "unix", address |-> path]
    ELSE [network |-> "tcp", address |-> host \o ":" \o Itoa(port)]

\* the arguments of binrpc.WritePacket after the connection
packetArgs(cmd, prm) == IF prm = "" THEN <<cmd>> ELSE <<cmd, prm>>

(***************************************************************************)
(* State.                                                                  *)
(***************************************************************************)
VARIABLES
    socketPath, kamailioHost, kamailioPort, \* the fields of the StatsCollector
    constLabels, descs,                     \* the globals set by initMetrics
    pc,               \* where each Collect call stands
    command, param,   \* the arguments of the running execRPCCommand
    conn,             \* its local conn: 0 (nil) or the id of a connection
    err, records,     \* what execRPCCommand returned
    memErr, memStatMap, completeStatMap,    \* locals of Collect
    metricChannel,    \* the metrics each Collect call has sent, in order
    open,             \* the connections that are open
    dialed,           \* connections opened by the running execRPCCommand
    replies,          \* what the execRPCCommand calls of the cycle returned
    panicked,         \* a goroutine panicked: the process is gone
    tpc, tMem, tMap, tOut   \* a translator applied to an input of its own

vars == <<socketPath, kamailioHost, kamailioPort, constLabels, descs, pc, command,
          param, conn, err, records, memErr, memStatMap, completeStatMap,
          metricChannel, open, dialed, replies, panicked, tpc, tMem, tMap, tOut>>

config == <<socketPath, kamailioHost, kamailioPort, constLabels, descs>>
locals == <<memErr, memStatMap, completeStatMap>>
translator == <<tpc, tMem, tMap, tOut>>

(***************************************************************************)
(* Inputs.                                                                 *)
(***************************************************************************)
\* the Collect calls: one, or two that overlap
Cycles == {1, 2}

\* largest number of records of a pkg.stats reply
MaxRecords == 1
\* largest number of items of the struct of a stats.fetch reply
MaxItems == 2

SocketPaths == {"", "/var/run/kamailio/kamailio_ctl"}
Hosts == {"", "localhost"}
Ports == {3012}
ConstLabelPool == {EmptyMap, [k \in {"instance"} |-> "sbc1"]}

SeqsUpTo(S, n) == UNION {[1..m -> S] : m \in 0..n}

\* stat keys and the values each may carry
StatPool == {
    <<"core.rcv_requests", "42">>, <<"core.rcv_requests", "1x">>,
    <<"sl.200_replies", "10">>, <<"sl.200_replies", "">>,
    <<"script.custom_total", "5">>, <<"script.custom_total", "-3">>,
    <<"tcp.established", "7">>,
    <<"tcp.current_opened_connections", "+2">>,
    <<"script.tcp_connections", "9">>,
    <<"script.Up_BYTES", "100">>, <<"script.Up_BYTES", "-">>,
    <<"script.up_bytes", "200">>,
    <<"foo.bar", "1">>,
    <<"Script.b_total", "6">> }

KeyPool == {kv[1] : kv \in StatPool}
ValuesOf(k) == {kv[2] : kv \in {x \in StatPool : x[1] = k}}

RECURSIVE FlatMapsOn(_)
\* the maps with keys S, each key with one of its values
FlatMapsOn(S) ==
    IF S = {} THEN {EmptyMap}
    ELSE LET k == CHOOSE x \in S : TRUE
         IN  {[j \in S |-> IF j = k THEN v ELSE f[j]] :
                v \in ValuesOf(k), f \in FlatMapsOn(S \ {k})}
FlatMaps(n) == UNION {FlatMapsOn(S) : S \in {T \in SUBSET KeyPool : Cardinality(T) <= n}}

EntryPool == {
    MemoryEntry("0", "123", "1", "1000", "500", "900", "2000", "3"),
    MemoryEntry("1", "124", "2", "10", "20", "30", "40", "5"),
    MemoryEntry("2", "125", "3", "", "7", "x", "8", "9"),
    EmptyEntry }

\* records a pkg.stats reply is made of
MemRecordPool == {
    StructRecord(<<StructItem("entry", IntRecord(0)), StructItem("pid", IntRecord(123)),
                   StructItem("rank", IntRecord(1)), StructItem("used", IntRecord(1000)),
                   StructItem("free", IntRecord(500)), StructItem("real_used", IntRecord(900)),
                   StructItem("total_size", IntRecord(2000)),
                   StructItem("total_frags", IntRecord(3))>>),
    StructRecord(<<StructItem("entry", IntRecord(1)), StructItem("pid", StringRecord("124")),
                   StructItem("bogus", IntRecord(4)), StructItem("used", IntRecord(10)),
                   StructItem("free", IntRecord(-20))>>),
    StructRecord(<<>>),
    IntRecord(5) }

\* items the struct of a stats.fetch reply is made of
StatItemPool == {
    StructItem("core.rcv_requests", StringRecord("42")),
    StructItem("script.custom_total", StringRecord("5")),
    StructItem("tcp.established", StringRecord("x")),
    StructItem("shmem.fragments", IntRecord(7)),
    StructItem("foo.bar", StringRecord("1")) }

\* a reply of two records, the first with a value that is no int and with
\* a key that is none of the eight
TwoRecordReply ==
    <<StructRecord(<<StructItem("entry", IntRecord(1)), StructItem("pid", StringRecord("124")),
                     StructItem("bogus", IntRecord(4)), StructItem("used", IntRecord(10))>>),
      StructRecord(<<StructItem("entry", IntRecord(0)), StructItem("pid", IntRecord(123)),
                     StructItem("rank", IntRecord(1))>>)>>

MemReplies == SeqsUpTo(MemRecordPool, MaxRecords) \cup {TwoRecordReply}

StatsReplies ==
    {<<>>, <<IntRecord(1)>>}
    \cup {<<StructRecord(items)>> : items \in SeqsUpTo(StatItemPool, MaxItems)}
    \cup {<<StructRecord(<<StructItem("foo.bar", StringRecord("1"))>>),
            StructRecord(<<StructItem("core.rcv_requests", StringRecord("42"))>>)>>}

(***************************************************************************)
(* Initial states: the collector as NewStatsCollector made it, the globals *)
(* as initMetrics set them, no Collect call running.                       *)
(***************************************************************************)
NoCall ==
    /\ pc = [c \in Cycles |-> "idle"]
    /\ command = [c \in Cycles |-> ""]
    /\ param = [c \in Cycles |-> ""]
    /\ conn = [c \in Cycles |-> 0]
    /\ err = [c \in Cycles |-> ""]
    /\ records = [c \in Cycles |-> <<>>]
    /\ memErr = [c \in Cycles |-> FALSE]
    /\ memStatMap = [c \in Cycles |-> <<>>]
    /\ completeStatMap = [c \in Cycles |-> EmptyMap]
    /\ metricChannel = [c \in Cycles |-> <<>>]
    /\ dialed = [c \in Cycles |-> 0]
    /\ replies = [c \in Cycles |-> <<>>]
    /\ open = {}
    /\ panicked = FALSE

NoTranslator == tpc = "off" /\ tMem = <<>> /\ tMap = EmptyMap /\ tOut = <<>>

Init ==
    /\ socketPath \in SocketPaths
    /\ kamailioHost \in Hosts
    /\ kamailioPort \in Ports
    /\ constLabels \in ConstLabelPool
    /\ descs = initMetrics(constLabels)
    /\ NoCall
    /\ NoTranslator

(***************************************************************************)
(* execRPCCommand.                                                         *)
(***************************************************************************)
\* a call of execRPCCommand(cmd, prm) by Collect call c
Call(c, cmd, prm) ==
    /\ pc' = [pc EXCEPT ![c] = "dial"]
    /\ command' = [command EXCEPT ![c] = cmd]
    /\ param' = [param EXCEPT ![c] = prm]
    /\ conn' = [conn EXCEPT ![c] = 0]
    /\ err' = [err EXCEPT ![c] = ""]
    /\ records' = [records EXCEPT ![c] = <<>>]
    /\ dialed' = [dialed EXCEPT ![c] = 0]

\* execRPCCommand returns e (nil is "") and recs to its caller
Return(c, e, recs) ==
    /\ pc' = [pc EXCEPT ![c] = "returned"]
    /\ err' = [err EXCEPT ![c] = e]
    /\ records' = [records EXCEPT ![c] = recs]
    /\ replies' = [replies EXCEPT ![c] = Append(@, [err |-> e, records |-> recs])]

FreshId == CHOOSE i \in 1..(Cardinality(open) + 1) : \A x \in open : x.id # i

\* execRPCCommand without the deferred Close
noClose(conns, id) == conns

\* defer conn.Close(), run when execRPCCommand returns
deferredClose(conns, id) == {x \in conns : x.id # id}

\* net.Dial succeeds
Dial(c) ==
    LET target == dialTarget(kamailioHost, kamailioPort, socketPath)
        id == FreshId
    IN  /\ ~panicked /\ pc[c] = "dial"
        /\ target.address # ""
        /\ open' = open \cup {[id |-> id, network |-> target.network,
                               address |-> target.address, owner |-> c,
                               written |-> <<>>]}
        /\ conn' = [conn EXCEPT ![c] = id]
        /\ dialed' = [dialed EXCEPT ![c] = @ + 1]
        /\ pc' = [pc EXCEPT ![c] = "write"]
        /\ UNCHANGED <<replies, config, command, param, err, records, locals, metricChannel,
                       panicked, translator>>

\* net.Dial fails: the error is returned, no connection exists
DialFail(c) ==
    /\ ~panicked /\ pc[c] = "dial"
    /\ Return(c, "dial", <<>>)
    /\ UNCHANGED <<config, command, param, conn, locals, metricChannel, open, dialed,
                   panicked, translator>>

\* binrpc.WritePacket succeeds
WritePacket(c) ==
    /\ ~panicked /\ pc[c] = "write"
    /\ open' = {IF x.id = conn[c]
                THEN [x EXCEPT !.written = packetArgs(command[c], param[c])]
                ELSE x : x \in open}
    /\ pc' = [pc EXCEPT ![c] = "read"]
    /\ UNCHANGED <<replies, config, command, param, conn, err, records, locals, metricChannel,
                   dialed, panicked, translator>>

\* binrpc.WritePacket fails
WritePacketFail(c) ==
    /\ ~panicked /\ pc[c] = "write"
    /\ Return(c, "write", <<>>)
    /\ open' = deferredClose(open, conn[c])
    /\ UNCHANGED <<config, command, param, conn, locals, metricChannel, dialed,
                   panicked, translator>>

\* binrpc.ReadPacket succeeds with one of the replies the command can get
ReadPacket(c, memReplies, statsReplies) ==
    /\ ~panicked /\ pc[c] = "read"
    /\ \E recs \in (IF command[c] = "pkg.stats" THEN memReplies ELSE statsReplies) :
          Return(c, "", recs)
    /\ open' = deferredClose(open, conn[c])
    /\ UNCHANGED <<config, command, param, conn, locals, metricChannel, dialed,
                   panicked, translator>>

\* binrpc.ReadPacket fails
ReadPacketFail(c) ==
    /\ ~panicked /\ pc[c] = "read"
    /\ Return(c, "read", <<>>)
    /\ open' = deferredClose(open, conn[c])
    /\ UNCHANGED <<config, command, param, conn, locals, metricChannel, dialed,
                   panicked, translator>>

(***************************************************************************)
(* Collect.                                                                *)
(***************************************************************************)
\* the locals of Collect kept in the collector, which all calls share
sharedFrame(c) == 1

\* where the locals of Collect call c live: in the frame of the call
frame(c) == c

\* Collect is called: it calls fetchPKGMemStats, which calls execRPCCommand
Collect(c) ==
    /\ ~panicked /\ pc[c] \in {"idle", "done"}
    /\ Call(c, "pkg.stats", "")
    /\ memErr' = [memErr EXCEPT ![c] = FALSE]
    /\ memStatMap' = [memStatMap EXCEPT ![frame(c)] = <<>>]
    /\ completeStatMap' = [completeStatMap EXCEPT ![frame(c)] = EmptyMap]
    /\ metricChannel' = [metricChannel EXCEPT ![c] = <<>>]
    /\ replies' = [replies EXCEPT ![c] = <<>>]
    /\ UNCHANGED <<config, open, panicked, translator>>

\* Collect returning when fetchPKGMemStats failed
afterMemFetchAbort(e) == IF e # "" THEN "done" ELSE "dial"

\* where Collect goes on after fetchPKGMemStats returned error e
afterMemFetch(e) == "dial"

\* fetchPKGMemStats calling execRPCCommand once more after a failure
PKGMemBranchRetry(c) ==
    /\ ~panicked /\ pc[c] = "returned" /\ command[c] = "pkg.stats"
    /\ IF err[c] = ""
       THEN LET result == memoryEntries(records[c])
            IN  /\ memErr' = [memErr EXCEPT ![c] = FALSE]
                /\ memStatMap' = [memStatMap EXCEPT ![frame(c)] = result]
                /\ metricChannel' = [metricChannel EXCEPT ![c] =
                                        @ \o producePKGMemMetrics(result, descs)]
       ELSE /\ memErr' = [memErr EXCEPT ![c] = TRUE]
            /\ UNCHANGED <<memStatMap, metricChannel>>
    /\ IF err[c] # "" /\ Len(replies[c]) < 2
       THEN Call(c, "pkg.stats", "")
       ELSE Call(c, "stats.fetch", "all")
    /\ UNCHANGED <<replies, config, completeStatMap, open, panicked, translator>>

\* fetchPKGMemStats returns to Collect: on success the memory metrics are
\* sent; then fetchStats is called, which calls execRPCCommand
PKGMemBranch(c) ==
    /\ ~panicked /\ pc[c] = "returned" /\ command[c] = "pkg.stats"
    /\ IF err[c] = ""
       THEN LET result == memoryEntries(records[c])
            IN  /\ memErr' = [memErr EXCEPT ![c] = FALSE]
                /\ memStatMap' = [memStatMap EXCEPT ![frame(c)] = result]
                /\ metricChannel' = [metricChannel EXCEPT ![c] =
                                        @ \o producePKGMemMetrics(result, descs)]
       ELSE /\ memErr' = [memErr EXCEPT ![c] = TRUE]
            /\ UNCHANGED <<memStatMap, metricChannel>>
    /\ IF afterMemFetch(err[c]) = "dial"
       THEN Call(c, "stats.fetch", "all")
       ELSE /\ pc' = [pc EXCEPT ![c] = afterMemFetch(err[c])]
            /\ UNCHANGED <<command, param, conn, err, records, dialed>>
    /\ UNCHANGED <<replies, config, completeStatMap, open, panicked, translator>>

\* fetchStats after execRPCCommand returned: an error is returned to
\* Collect, which ends; records[0] of an empty reply is an index out of
\* range, a panic no one recovers; otherwise the map is built and
\* produceMetrics sends the well-known metrics
StatsBranch(c) ==
    /\ ~panicked /\ pc[c] = "returned" /\ command[c] = "stats.fetch"
    /\ IF err[c] # ""
       THEN /\ pc' = [pc EXCEPT ![c] = "done"]
            /\ UNCHANGED <<completeStatMap, metricChannel, panicked>>
       ELSE IF Len(records[c]) = 0
       THEN /\ pc' = [pc EXCEPT ![c] = "panic"]
            /\ panicked' = TRUE
            /\ UNCHANGED <<completeStatMap, metricChannel>>
       ELSE LET result == statMap(records[c])
            IN  /\ completeStatMap' = [completeStatMap EXCEPT ![c] = result]
                /\ metricChannel' = [metricChannel EXCEPT ![c] =
                                        @ \o produceMetrics(result, descs)]
                /\ pc' = [pc EXCEPT ![c] = "scripted"]
                /\ UNCHANGED panicked
    /\ UNCHANGED <<replies, config, command, param, conn, err, records, memErr, memStatMap,
                   open, dialed, translator>>

\* convertScriptedMetrics, after which Collect returns
ConvertScripted(c) ==
    /\ ~panicked /\ pc[c] = "scripted"
    /\ \E order \in RangeOrders(DOMAIN completeStatMap[frame(c)]) :
          metricChannel' = [metricChannel EXCEPT ![c] =
              @ \o convertScriptedMetrics(completeStatMap[frame(c)], order, constLabels)]
    /\ pc' = [pc EXCEPT ![c] = "done"]
    /\ UNCHANGED <<replies, config, command, param, conn, err, records, locals, open, dialed,
                   panicked, translator>>

\* one Collect call at a time, with any reply
Next ==
    \E c \in {1} :
        \/ Collect(c)
        \/ Dial(c)
        \/ DialFail(c)
        \/ WritePacket(c)
        \/ WritePacketFail(c)
        \/ ReadPacket(c, MemReplies, StatsReplies)
        \/ ReadPacketFail(c)
        \/ PKGMemBranch(c)
        \/ StatsBranch(c)
        \/ ConvertScripted(c)

Spec == Init /\ [][Next]_vars

(***************************************************************************)
(* Properties of a collection cycle.                                       *)
(***************************************************************************)
IsPKGMetric(s) == s.metric.desc.fqName = "kamailio_pkg_bytes"

\* what the memory branch sends in a cycle, given the outcome of its fetch
MemPart(c) ==
    IF memErr[c] THEN <<>> ELSE producePKGMemMetrics(memStatMap[c], descs)

\* what the stats branch can send in a cycle whose stats fetch succeeded
StatsParts(c) ==
    {produceMetrics(completeStatMap[c], descs)
        \o convertScriptedMetrics(completeStatMap[c], order, constLabels) :
     order \in RangeOrders(DOMAIN completeStatMap[c])}

\* C1: the two fetches of a cycle fail independently.  A finished cycle has
\* called stats.fetch whatever pkg.stats returned; what it has sent is the
\* memory metrics (none when pkg.stats failed) followed by the flat-stat and
\* scripted metrics of the stats reply (none when stats.fetch failed), the
\* one part being the same whatever the outcome of the other fetch.
C1_IndependentFetches ==
    \A c \in Cycles :
        pc[c] = "done" =>
            /\ command[c] = "stats.fetch"
            /\ memErr[c] => \A i \in DOMAIN metricChannel[c] : ~IsPKGMetric(metricChannel[c][i])
            /\ IF err[c] # ""
               THEN metricChannel[c] = MemPart(c)
               ELSE \E part \in StatsParts(c) : metricChannel[c] = MemPart(c) \o part

\* a cycle whose memory fetch failed and whose stats fetch succeeded has
\* sent metrics
C1_Witness ==
    /\ pc[1] = "done" /\ memErr[1] /\ err[1] = ""
    /\ metricChannel[1] # <<>>

ExpectedShape(recs) == Len(recs) > 0 /\ recs[1].Type = "struct"

\* C2: a stats.fetch reply of unexpected shape (no record, or a first
\* record that is no struct) is handled like a transport error: fetchStats
\* returns an error, the cycle sends no flat-stat or scripted metric, and
\* the cycle ends without a crash.
C2_UnexpectedShapeIsError ==
    \A c \in Cycles :
        (command[c] = "stats.fetch" /\ pc[c] \in {"scripted", "done", "panic"}
         /\ ~ExpectedShape(records[c]))
        => /\ err[c] # ""
           /\ pc[c] = "done"
           /\ ~panicked
           /\ metricChannel[c] = MemPart(c)

\* C3 as claimed: the domain socket is dialed whenever the socket path is
\* not empty, TCP only when it is empty.
C3_SocketPathFirst ==
    \A x \in open :
        IF socketPath # ""
        THEN x.network = "unix" /\ x.address = socketPath
        ELSE x.network = "tcp"

\* C3, amended: every connection is a TCP connection to host:port when the
\* host is not empty (a socket path being configured or not), and a
\* domain-socket connection to the socket path only when the host is empty.
C3_HostFirst ==
    \A x \in open :
        IF kamailioHost # ""
        THEN x.network = "tcp" /\ x.address = kamailioHost \o ":" \o Itoa(kamailioPort)
        ELSE x.network = "unix" /\ x.address = socketPath

\* a TCP connection is open although a socket path is configured
C3_Witness ==
    \E x \in open : x.network = "tcp" /\ socketPath # "" /\ x.address = "localhost:3012"

\* C4: an execRPCCommand call opens at most one connection; an open
\* connection belongs to a call that is between its Dial and its return and
\* that dialed it itself, so none is left when the call has returned on any
\* path, none outlives the cycle and none is taken over by a later call.
C4_OneConnectionClosedOnReturn ==
    /\ \A c \in Cycles : dialed[c] <= 1
    /\ \A x \in open : pc[x.owner] \in {"write", "read"} /\ conn[x.owner] = x.id
    /\ \A c \in Cycles :
          pc[c] \in {"write", "read"} =>
              /\ dialed[c] = 1
              /\ Cardinality({x \in open : x.owner = c}) = 1
              /\ \E x \in open : x.id = conn[c] /\ x.owner = c

\* a call that opened a connection has returned a write error, and no
\* connection is open
C4_Witness ==
    /\ pc[1] = "returned" /\ err[1] = "write" /\ dialed[1] = 1
    /\ command[1] = "stats.fetch"
    /\ open = {}

\* where a sample stands in a cycle: 0 a memory sample, 1 the sample of a
\* well-known stat, 2 a scripted sample
SampleRank(s) ==
    IF IsPKGMetric(s) THEN 0
    ELSE IF s.statKey \in TableKeys THEN 1
    ELSE 2

\* the execRPCCommand calls of the running cycle that have returned
Returned(c) == Len(replies[c])

\* C11: a cycle invokes pkg.stats once and then stats.fetch once, without a
\* retry, whatever pkg.stats returned: while pkg.stats runs no call of the
\* cycle has returned; stats.fetch runs only after exactly one call (the
\* pkg.stats one) has returned, and once it has returned no further call is
\* made; a cycle that has ended has made exactly the two calls.  A
\* connection of the cycle is open only inside a call, at most one at a
\* time, so the pkg.stats connection is closed before the stats.fetch one
\* is opened.  In the sink the memory samples come before the samples of
\* the well-known stats, and these before the scripted samples.
C11_FixedOrderNoRetry ==
    \A c \in Cycles :
        /\ Returned(c) <= 2
        /\ (command[c] = "pkg.stats" /\ pc[c] \in {"dial", "write", "read"})
              => Returned(c) = 0
        /\ (command[c] = "pkg.stats" /\ pc[c] = "returned") => Returned(c) = 1
        /\ (command[c] = "stats.fetch" /\ pc[c] \in {"dial", "write", "read"})
              => Returned(c) = 1
        /\ pc[c] \in {"scripted", "done", "panic"}
              => command[c] = "stats.fetch" /\ Returned(c) = 2
        /\ (command[c] = "stats.fetch" /\ pc[c] = "returned") => Returned(c) = 2
        /\ \A x \in open :
              x.owner = c =>
                  /\ pc[c] \in {"write", "read"}
                  /\ x.id = conn[c]
                  /\ x.written \in {<<>>, packetArgs(command[c], param[c])}
                  /\ command[c] = "stats.fetch" => Returned(c) = 1
        /\ \A i, j \in DOMAIN metricChannel[c] :
              i < j => SampleRank(metricChannel[c][i]) <= SampleRank(metricChannel[c][j])
        /\ pc[c] \in {"dial", "write", "read", "returned"}
              => \A i \in DOMAIN metricChannel[c] : SampleRank(metricChannel[c][i]) = 0

\* a cycle has ended after two calls, having sent a memory sample, then the
\* sample of a well-known stat, then a scripted sample
C11_Witness ==
    /\ pc[1] = "done" /\ Returned(1) = 2 /\ open = {}
    /\ \E i, j, k \in DOMAIN metricChannel[1] :
          /\ i < j /\ j < k
          /\ SampleRank(metricChannel[1][i]) = 0
          /\ SampleRank(metricChannel[1][j]) = 1
          /\ SampleRank(metricChannel[1][k]) = 2

\* the items of the first record of the stats.fetch reply of cycle c
StatItems(c) == StructItems(records[c][1]).v

\* the string value of the last item with key k whose value is a string
LastString(items, k) ==
    LET at == {i \in DOMAIN items : items[i].Key = k /\ ~RecordString(items[i].Value).err}
    IN  items[CHOOSE i \in at : \A j \in at : j <= i].Value.Str

\* C12: in the map fetchStats returns, a key whose items all have a value
\* that is no string has no entry, and every other key of the record has
\* its string value.
C12_FailedItemSkipped ==
    \A c \in Cycles :
        (command[c] = "stats.fetch" /\ pc[c] \in {"scripted", "done"} /\ err[c] = ""
         /\ ExpectedShape(records[c]))
        => \A i \in DOMAIN StatItems(c) :
              LET k == StatItems(c)[i].Key
              IN  IF \A j \in DOMAIN StatItems(c) :
                        StatItems(c)[j].Key = k => RecordString(StatItems(c)[j].Value).err
                  THEN k \notin DOMAIN completeStatMap[c]
                  ELSE /\ k \in DOMAIN completeStatMap[c]
                       /\ completeStatMap[c][k] = LastString(StatItems(c), k)

\* the key of the wire for each field of a MemoryEntry
WireKey ==
    [Entry |-> "entry", Pid |-> "pid", Rank |-> "rank", Used |-> "used", Free |-> "free",
     RealUsed |-> "real_used", TotalSize |-> "total_size", TotalFrags |-> "total_frags"]

\* what a field of the entry of a record has to be: the decimal form of the
\* last int item with the key of the field, the empty string without one
ExpectedField(rec, f) ==
    LET items == StructItems(rec).v
        at == {i \in DOMAIN items : items[i].Key = WireKey[f] /\ ~RecordInt(items[i].Value).err}
    IN  IF at = {} THEN ""
        ELSE Itoa(items[CHOOSE i \in at : \A j \in at : j <= i].Value.Int)

\* C13: once pkg.stats has returned without error, fetchPKGMemStats has
\* returned without error one MemoryEntry per record, in the order of the
\* records; each field of an entry is decided by the int items with its
\* key alone (an item with another key or with a value that is no int
\* changes nothing and ends nothing) and is empty without such an item.
C13_OneEntryPerRecord ==
    \A c \in Cycles :
        (command[c] = "stats.fetch" /\ replies[c][1].err = "")
        => LET recs == replies[c][1].records
           IN  /\ ~memErr[c]
               /\ Len(memStatMap[c]) = Len(recs)
               /\ \A i \in DOMAIN recs : \A f \in DOMAIN WireKey :
                     memStatMap[c][i][f] = ExpectedField(recs[i], f)

\* the memory reply had two records, the first with a pid that is no int
\* and an unknown key before its used item: both entries are there, in
\* order, the first with its used field and without a pid
C13_Witness ==
    /\ command[1] = "stats.fetch" /\ replies[1][1].err = ""
    /\ replies[1][1].records = TwoRecordReply
    /\ Len(memStatMap[1]) = 2
    /\ memStatMap[1][1].Entry = "1" /\ memStatMap[1][1].Pid = ""
    /\ memStatMap[1][1].Used = "10"
    /\ memStatMap[1][2].Entry = "0" /\ memStatMap[1][2].Pid = "123"

(***************************************************************************)
(* A cycle that goes on: Collect runs in a goroutine of its own, which the *)
(* scheduler keeps running; each call of the network returns, with a       *)
(* result or with an error, and the channel takes each metric sent.  So a  *)
(* Collect call that is inside a cycle does not stay where it is.  After a *)
(* panic there is no goroutine left to go on.                              *)
(***************************************************************************)
Running == {"dial", "write", "read", "returned", "scripted"}

\* the Collect call c moves on from where it stands
Advance(c) ==
    /\ ~panicked /\ pc[c] \in Running
    /\ \E p \in Running \cup {"done", "panic"} : pc' = [pc EXCEPT ![c] = p]

FairSpec == Spec /\ WF_pc(Advance(1))

\* C14: a cycle that has started comes to its end, whatever the outcomes
\* of its two fetches, when each of its steps is eventually taken.
C14_CycleCompletes ==
    (pc[1] = "dial" /\ command[1] = "pkg.stats") ~> (pc[1] = "done")

(***************************************************************************)
(* The translators applied to inputs of their own: the memory translator   *)
(* to a list of entries, or produceMetrics and then                        *)
(* convertScriptedMetrics to a flat map.                                   *)
(***************************************************************************)
InitTranslate ==
    /\ socketPath = "/var/run/kamailio/kamailio_ctl"
    /\ kamailioHost = ""
    /\ kamailioPort \in Ports
    /\ constLabels \in ConstLabelPool
    /\ descs = initMetrics(constLabels)
    /\ NoCall
    /\ tOut = <<>>
    /\ \/ tpc = "pkg" /\ tMem \in SeqsUpTo(EntryPool, MaxEntries) /\ tMap = EmptyMap
       \/ tpc = "metrics" /\ tMem = <<>> /\ tMap \in FlatMaps(MaxKeys)

machine == <<pc, command, param, conn, err, records, memErr, memStatMap,
             completeStatMap, metricChannel, open, dialed, replies, panicked>>

ApplyPKG ==
    /\ tpc = "pkg"
    /\ tOut' = producePKGMemMetrics(tMem, descs)
    /\ tpc' = "pkg_done"
    /\ UNCHANGED <<config, machine, tMem, tMap>>

ApplyProduceMetrics ==
    /\ tpc = "metrics"
    /\ tOut' = produceMetrics(tMap, descs)
    /\ tpc' = "scripted"
    /\ UNCHANGED <<config, machine, tMem, tMap>>

ApplyScripted ==
    /\ tpc = "scripted"
    /\ \E order \in RangeOrders(DOMAIN tMap) :
          tOut' = tOut \o convertScriptedMetrics(tMap, order, constLabels)
    /\ tpc' = "end"
    /\ UNCHANGED <<config, machine, tMem, tMap>>

NextTranslate == ApplyPKG \/ ApplyProduceMetrics \/ ApplyScripted

TranslateSpec == InitTranslate /\ [][NextTranslate]_vars

(***************************************************************************)
(* Properties of the translators.                                          *)
(***************************************************************************)
Range(seq) == {seq[i] : i \in DOMAIN seq}

\* a metric as its consumer sees it: name, labels, kind and value
Seen(s) ==
    [name |-> s.metric.desc.fqName,
     labels |-> [i \in DOMAIN s.metric.labelValues |->
                    <<s.metric.desc.variableLabels[i], s.metric.labelValues[i]>>],
     kind |-> s.metric.valType,
     value |-> s.metric.val]

C5Map ==
    [k \in {"core.rcv_requests", "sl.200_replies", "script.custom_total"} |->
        IF k = "core.rcv_requests" THEN "42" ELSE IF k = "sl.200_replies" THEN "10" ELSE "5"]

\* C5 as claimed: the map {core.rcv_requests: 42, sl.200_replies: 10,
\* script.custom_total: 5} gives exactly three counters, the first of them
\* kamailio_core_rcv_request_total{method="rcv"} = 42.
C5_ScenarioRcvRequestTotal ==
    (tpc = "end" /\ tMap = C5Map) =>
        /\ Len(tOut) = 3
        /\ {Seen(tOut[i]) : i \in DOMAIN tOut} =
             {[name |-> "kamailio_core_rcv_request_total", labels |-> <<<<"method", "rcv">>>>,
               kind |-> "counter", value |-> 42],
              [name |-> "kamailio_sl_reply_total", labels |-> <<<<"code", "200">>>>,
               kind |-> "counter", value |-> 10],
              [name |-> "kamailio_custom_total", labels |-> <<>>,
               kind |-> "counter", value |-> 5]}

\* C5, amended: the same map gives exactly three counters:
\* kamailio_core_request_total{method="rcv"} = 42,
\* kamailio_sl_reply_total{code="200"} = 10 and kamailio_custom_total = 5.
C5_ScenarioRequestTotal ==
    (tpc = "end" /\ tMap = C5Map) =>
        /\ Len(tOut) = 3
        /\ {Seen(tOut[i]) : i \in DOMAIN tOut} =
             {[name |-> "kamailio_core_request_total", labels |-> <<<<"method", "rcv">>>>,
               kind |-> "counter", value |-> 42],
              [name |-> "kamailio_sl_reply_total", labels |-> <<<<"code", "200">>>>,
               kind |-> "counter", value |-> 10],
              [name |-> "kamailio_custom_total", labels |-> <<>>,
               kind |-> "counter", value |-> 5]}

\* both translators have run on the map of the scenario
C5_Witness == tpc = "end" /\ tMap = C5Map /\ Len(tOut) = 3

Numeric(v) == ~ParseFloat(v).err

\* the five value fields of a memory entry, each with the type label of its metric
PKGFields(e) ==
    <<<<e.Used, "used">>, <<e.Free, "free">>, <<e.RealUsed, "real_used">>,
      <<e.TotalSize, "total">>, <<e.TotalFrags, "total_frags">>>>

WellFormedEntry(e) == \A j \in 1..5 : Numeric(PKGFields(e)[j][1])

NumericFields(e) == Cardinality({j \in 1..5 : Numeric(PKGFields(e)[j][1])})

RECURSIVE SentBefore(_, _)
\* the number of metrics the entries before the i-th give
SentBefore(entries, i) ==
    IF i <= 1 THEN 0 ELSE SentBefore(entries, i - 1) + NumericFields(entries[i - 1])

\* C6: an entry whose five value fields are numeric gives exactly five
\* metrics of kamailio_pkg_bytes, all gauges, in the order used, free,
\* real_used, total, total_frags: each carries the entry's own entry, pid
\* and rank as its first three label values, its own type as the fourth,
\* and the value of the field of that type.
C6_FiveGaugesPerEntry ==
    tpc = "pkg_done" =>
      /\ Len(tOut) = SentBefore(tMem, Len(tMem) + 1)
      /\ \A i \in DOMAIN tMem :
            WellFormedEntry(tMem[i]) =>
                LET base == SentBefore(tMem, i)
                    e == tMem[i]
                IN  /\ Len(tOut) >= base + 5
                    /\ i = Len(tMem) => Len(tOut) = base + 5
                    /\ \A j \in 1..5 :
                          /\ tOut[base + j].metric.desc.fqName = "kamailio_pkg_bytes"
                          /\ tOut[base + j].metric.valType = "gauge"
                          /\ tOut[base + j].metric.labelValues =
                                <<e.Entry, e.Pid, e.Rank, PKGFields(e)[j][2]>>
                          /\ tOut[base + j].metric.val = ParseFloat(PKGFields(e)[j][1]).val

\* the memory translator has run on two different well-formed entries
C6_Witness ==
    /\ tpc = "pkg_done" /\ Len(tMem) = 2 /\ tMem[1] # tMem[2]
    /\ WellFormedEntry(tMem[1]) /\ WellFormedEntry(tMem[2])
    /\ Len(tOut) = 10
    /\ tOut[1].metric.labelValues = <<"0", "123", "1", "used">>
    /\ tOut[1].metric.val = 1000

IsScriptKey(k) == Len(k) >= 7 /\ SubSeq(k, 1, 7) = "script."
ScriptName(k) == SubSeq(k, 8, Len(k))
EndsIn(x, suffix) ==
    Len(x) >= Len(suffix) /\ SubSeq(x, Len(x) - Len(suffix) + 1, Len(x)) = suffix
CounterSuffix(x) == EndsIn(x, "_total") \/ EndsIn(x, "_seconds") \/ EndsIn(x, "_bytes")

\* C7: a key script.X with a numeric value gives exactly one metric, without
\* labels, named kamailio_<X lower-cased>; it is a counter if X as received
\* (equivalently the prefixed key) ends in _total, _seconds or _bytes, and
\* a gauge otherwise.
C7_ScriptedMetric ==
    tpc = "end" =>
        \A k \in DOMAIN tMap :
            (IsScriptKey(k) /\ Numeric(tMap[k])) =>
                LET from == {i \in DOMAIN tOut : tOut[i].statKey = k}
                IN  /\ Cardinality(from) = 1
                    /\ \A i \in from :
                          /\ tOut[i].metric.desc.fqName = "kamailio_" \o ToLower(ScriptName(k))
                          /\ tOut[i].metric.desc.variableLabels = <<>>
                          /\ tOut[i].metric.labelValues = <<>>
                          /\ tOut[i].metric.val = ParseFloat(tMap[k]).val
                          /\ CounterSuffix(ScriptName(k)) <=> CounterSuffix(k)
                          /\ tOut[i].metric.valType =
                                IF CounterSuffix(ScriptName(k)) THEN "counter" ELSE "gauge"

\* script.Up_BYTES, whose suffix is not lower case, has given the gauge
\* kamailio_up_bytes, and script.custom_total a counter
C7_Witness ==
    /\ tpc = "end"
    /\ \E i \in DOMAIN tOut :
          /\ tOut[i].statKey = "script.Up_BYTES"
          /\ Seen(tOut[i]) = [name |-> "kamailio_up_bytes", labels |-> <<>>,
                              kind |-> "gauge", value |-> 100]
    /\ \E i \in DOMAIN tOut :
          /\ tOut[i].statKey = "script.custom_total"
          /\ Seen(tOut[i]) = [name |-> "kamailio_custom_total", labels |-> <<>>,
                              kind |-> "counter", value |-> 0 - 3]

Without(m, k) == [j \in DOMAIN m \ {k} |-> m[j]]

\* C9: what the two translators send for a map without one of its keys is
\* what they send for the map, less the metrics converted from that key;
\* the metrics of the other keys are the same in name, labels, kind and
\* value.
C9_RemovedKey ==
    tpc = "end" =>
        \A k \in DOMAIN tMap :
            LET less == Without(tMap, k)
                kept == {i \in DOMAIN tOut : tOut[i].statKey # k}
                known == produceMetrics(less, descs)
            IN  \A order \in RangeOrders(DOMAIN less) :
                    LET out == known \o convertScriptedMetrics(less, order, constLabels)
                    IN  /\ Range(out) = {tOut[i] : i \in kept}
                        /\ Len(out) = Cardinality(kept)

\* the translators have run on a map with tcp.established, another TCP stat
\* and a scripted stat, each of which has given a metric
C9_Witness ==
    /\ tpc = "end"
    /\ DOMAIN tMap = {"tcp.established", "tcp.current_opened_connections",
                      "script.custom_total"}
    /\ {tOut[i].statKey : i \in DOMAIN tOut} = DOMAIN tMap

\* C10: every metric of the stats branch is converted from a key of the
\* mapping table or a key that starts with script.; a key of the map that
\* is neither gives no metric.
C10_OnlyKnownOrScripted ==
    tpc \in {"scripted", "end"} =>
        /\ \A i \in DOMAIN tOut :
              /\ tOut[i].statKey \in DOMAIN tMap
              /\ tOut[i].statKey \in TableKeys \/ IsScriptKey(tOut[i].statKey)
        /\ \A k \in DOMAIN tMap :
              (k \notin TableKeys /\ ~IsScriptKey(k)) =>
                  \A i \in DOMAIN tOut : tOut[i].statKey # k

\* the translators have run on a map with keys that are neither known nor
\* scripted, and with a scripted key that has given the only metric
C10_Witness ==
    /\ tpc = "end"
    /\ DOMAIN tMap = {"foo.bar", "Script.b_total", "script.custom_total"}
    /\ Len(tOut) = 1

\* what tells one sample from another: the name of the metric and the
\* values of its labels
Identity(s) == <<s.metric.desc.fqName, s.metric.labelValues>>

NoTwoAlike(out) ==
    \A i, j \in DOMAIN out : i # j => Identity(out[i]) # Identity(out[j])

DistinctProcesses(entries) ==
    \A i, j \in DOMAIN entries :
        i # j => <<entries[i].Entry, entries[i].Pid, entries[i].Rank>>
                 # <<entries[j].Entry, entries[j].Pid, entries[j].Rank>>

\* C15: no two samples of a cycle have the same name and the same label
\* values, be it among the memory samples of entries with pairwise distinct
\* (entry, pid, rank) or among the samples of a flat map; two scripted
\* samples of a map never have the same name, and a scripted sample never
\* has the name of the sample of a well-known stat.
C15_NoDuplicateSamples ==
    /\ (tpc = "pkg_done" /\ DistinctProcesses(tMem)) => NoTwoAlike(tOut)
    /\ tpc = "end" =>
          /\ NoTwoAlike(tOut)
          /\ \A i, j \in DOMAIN tOut :
                (i # j /\ IsScriptKey(tOut[i].statKey))
                => tOut[i].metric.desc.fqName # tOut[j].metric.desc.fqName

(***************************************************************************)
(* Overlapping Collect calls on one collector.                             *)
(***************************************************************************)
ConcMemReplies == {
    <<StructRecord(<<StructItem("entry", IntRecord(0)), StructItem("pid", IntRecord(123)),
                     StructItem("rank", IntRecord(1)), StructItem("used", IntRecord(1000))>>)>>,
    <<StructRecord(<<StructItem("entry", IntRecord(1)), StructItem("pid", IntRecord(124)),
                     StructItem("rank", IntRecord(2)), StructItem("free", IntRecord(20))>>)>> }

ConcStatsReplies == {
    <<>>,
    <<StructRecord(<<StructItem("core.rcv_requests", StringRecord("42")),
                     StructItem("script.custom_total", StringRecord("5"))>>)>>,
    <<StructRecord(<<StructItem("sl.200_replies", StringRecord("10")),
                     StructItem("script.load", StringRecord("3"))>>)>> }

InitConc ==
    /\ socketPath = "/var/run/kamailio/kamailio_ctl"
    /\ kamailioHost = ""
    /\ kamailioPort \in Ports
    /\ constLabels = [k \in {"instance"} |-> "sbc1"]
    /\ descs = initMetrics(constLabels)
    /\ NoCall
    /\ NoTranslator

\* two Collect calls, in any interleaving of their steps
NextConc ==
    \E c \in Cycles :
        \/ Collect(c)
        \/ Dial(c)
        \/ DialFail(c)
        \/ WritePacket(c)
        \/ WritePacketFail(c)
        \/ ReadPacket(c, ConcMemReplies, ConcStatsReplies)
        \/ ReadPacketFail(c)
        \/ PKGMemBranch(c)
        \/ StatsBranch(c)
        \/ ConvertScripted(c)

ConcSpec == InitConc /\ [][NextConc]_vars

\* what a Collect call running alone sends when its two execRPCCommand
\* calls return rs[1] and rs[2]: one sequence for each order in which the
\* range over the stat map can go
Alone(rs) ==
    LET catalog == initMetrics(constLabels)
        memPart == IF rs[1].err # "" THEN <<>>
                   ELSE producePKGMemMetrics(memoryEntries(rs[1].records), catalog)
    IN  IF rs[2].err # "" \/ Len(rs[2].records) = 0 THEN {memPart}
        ELSE LET m == statMap(rs[2].records)
             IN  {memPart \o produceMetrics(m, catalog)
                          \o convertScriptedMetrics(m, order, constLabels) :
                  order \in RangeOrders(DOMAIN m)}

IsPrefix(a, b) == Len(a) <= Len(b) /\ SubSeq(b, 1, Len(a)) = a

\* C8: whatever the interleaving of two overlapping Collect calls, a call
\* that has ended has sent exactly what it sends alone on the replies it
\* received, a call that has both replies has sent a prefix of that, and
\* the descriptors are still those initMetrics made.
C8_ConcurrentCyclesIndependent ==
    /\ descs = initMetrics(constLabels)
    /\ \A c \in Cycles :
          /\ pc[c] = "done" => metricChannel[c] \in Alone(replies[c])
          /\ (Len(replies[c]) = 2 /\ pc[c] \in {"returned", "scripted", "panic"}) =>
                \E all \in Alone(replies[c]) : IsPrefix(metricChannel[c], all)

\* two Collect calls are inside their stats.fetch at once, after different
\* memory replies whose metrics they have sent
C8_Witness ==
    /\ Cardinality(open) = 2
    /\ command[1] = "stats.fetch" /\ command[2] = "stats.fetch"
    /\ metricChannel[1] # <<>> /\ metricChannel[2] # <<>>
    /\ metricChannel[1] # metricChannel[2]

====
